---- MODULE Spec2Model ----
\* Verification model of config/secret_manager.py (SecretManager) and
\* src/schemas/object_schema.py (DesignObject.generate_id, MaterialProperties).
EXTENDS Integers, Sequences, FiniteSets, TLC

VARIABLES environ, pc, provider, _client, _cache,
          calls, ctorCalls, ctorOk, last, prev, returned,
          idIn, idOut, matIn, matOut

secretVars == <<environ, pc, provider, _client, _cache,
                calls, ctorCalls, ctorOk, last, prev, returned>>
schemaVars == <<idIn, idOut, matIn, matOut>>
vars == <<secretVars, schemaVars>>

\* ---------------------------------------------------------------- bounds
MaxCalls == 3
MaxTypeLen == 2
NegIndexes == 2
MaxIndex == 10
Unit == 4
BelowRange == 2
AboveRange == 2

\* ------------------------------------------------------- python values
\* Python's None; every other value of the model is a str.
None == "<None>"

\* bool(v) for v a str or None
Truthy(v) == v # None /\ v # ""

\* ------------------------------------------------------ the environment
DetectVars == {"AWS_REGION", "AWS_DEFAULT_REGION", "AZURE_KEY_VAULT_URL", "GCP_PROJECT_ID"}
SecretNames == {"DB_PASSWORD", "API_KEY"}
SecretValues == {"v1", "v2"}
EnvVars == DetectVars \cup SecretNames

\* what a variable of os.environ can be: absent, set to "", set to a text
DetectSettings == {None, "", "x"}
SecretSettings == {None, ""} \cup SecretValues

\* os.getenv(key): the value, or None when the variable is absent
getenv(key) == environ[key]

\* ------------------------------------------------------------ providers
SecretProvider == {"aws", "azure", "gcp", "env"}
Unset == "unset"

\* the Azure test placed before the AWS test
_detect_provider_azure_first ==
    IF Truthy(getenv("AZURE_KEY_VAULT_URL")) THEN "azure"
    ELSE IF Truthy(getenv("AWS_REGION")) \/ Truthy(getenv("AWS_DEFAULT_REGION")) THEN "aws"
    ELSE IF Truthy(getenv("GCP_PROJECT_ID")) THEN "gcp"
    ELSE "env"

_detect_provider ==
    IF Truthy(getenv("AWS_REGION")) \/ Truthy(getenv("AWS_DEFAULT_REGION")) THEN "aws"
    ELSE IF Truthy(getenv("AZURE_KEY_VAULT_URL")) THEN "azure"
    ELSE IF Truthy(getenv("GCP_PROJECT_ID")) THEN "gcp"
    ELSE "env"

\* ------------------------------------------------- exceptions, outcomes
Excs == {"ImportError", "ClientError", "Exception"}
NoExc == "-"
NoName == "-"

\* the except clauses of each fetch routine
Catches(p, e) ==
    IF p = "aws" THEN e \in {"ImportError", "ClientError"}
    ELSE TRUE

\* what a get-secret request can hand back: AWS SecretString and GCP's
\* decoded payload are str, Azure's secret.value is Optional[str]
BackendValues(p) == {""} \cup SecretValues \cup (IF p = "azure" THEN {None} ELSE {})

Ok(v) == <<"ok", v>>
Raise(e) == <<"raise", e>>
CtorOutcomes == {Ok("client")} \cup {Raise(e) : e \in Excs}
ReqOutcomes(p) == {Ok(v) : v \in BackendValues(p)} \cup {Raise(e) : e \in Excs}

\* result of one routine: returned value or raised exception, the client
\* handle afterwards, and what it did on the way
Res(ret, raised, fault, client, ctor, ok, reqs, envRead) ==
    [ret |-> ret, raised |-> raised, fault |-> fault, client |-> client,
     ctor |-> ctor, ctorOk |-> ok, reqs |-> reqs, envRead |-> envRead]

\* the lookup without the 'or ""'
_get_env_secret_raw(name) == getenv(name)

_get_env_secret(name) ==
    LET value == getenv(name)
    IN IF Truthy(value) THEN value ELSE ""

\* the except branches: a caught exception goes to the environment lookup,
\* any other propagates
Handle(p, name, e, client, ctor, reqs) ==
    IF Catches(p, e)
    THEN Res(_get_env_secret(name), NoExc, e, client, ctor, 0, reqs, 1)
    ELSE Res(None, e, e, client, ctor, 0, reqs, 0)

\* the client test dropped: a client is built on every fetch
NeedsClientAlways == TRUE

\* "if not self._client": no client handle has been stored yet
NeedsClient == _client = None

\* _get_aws_secret / _get_azure_secret / _get_gcp_secret: import, lazy
\* client construction, one request
_get_cloud_secret(p, name, imp, ctor, req) ==
    IF ~imp THEN Handle(p, name, "ImportError", _client, 0, 0)
    ELSE IF NeedsClient /\ ctor[1] = "raise"
         THEN Handle(p, name, ctor[2], _client, 1, 0)
    ELSE LET made == IF NeedsClient THEN 1 ELSE 0
             client == IF NeedsClient THEN ctor[2] ELSE _client
         IN IF req[1] = "raise"
            THEN LET h == Handle(p, name, req[2], client, made, 1)
                 IN [h EXCEPT !.ctorOk = made]
            ELSE Res(req[2], NoExc, NoExc, client, made, made, 1, 0)

\* the dispatch of get_secret after a cache miss
Dispatch(name, imp, ctor, req) ==
    IF provider \in {"aws", "azure", "gcp"}
    THEN _get_cloud_secret(provider, name, imp, ctor, req)
    ELSE Res(_get_env_secret(name), NoExc, NoExc, _client, 0, 0, 0, 1)

CallRec(name, ret, raised, fault, hit, ctor, reqs, envRead) ==
    [name |-> name, ret |-> ret, raised |-> raised, fault |-> fault, hit |-> hit,
     ctor |-> ctor, reqs |-> reqs, envRead |-> envRead]
NoCall == CallRec(NoName, None, NoExc, NoExc, FALSE, 0, 0, 0)

\* what is remembered of the call before the last one
PrevRec(c) == [name |-> c.name, nonEmpty |-> (c.raised = NoExc /\ Truthy(c.ret)), reqs |-> c.reqs]
NoPrev == PrevRec(NoCall)

\* ---------------------------------------------------------------- state
\* ------------------------------------------- DesignObject.generate_id
\* a str is the sequence of its characters
UpperChars == <<"A", "B", "C", "D", "E", "F", "G", "H", "I", "J", "K", "L", "M",
                "N", "O", "P", "Q", "R", "S", "T", "U", "V", "W", "X", "Y", "Z">>
LowerChars == <<"a", "b", "c", "d", "e", "f", "g", "h", "i", "j", "k", "l", "m",
                "n", "o", "p", "q", "r", "s", "t", "u", "v", "w", "x", "y", "z">>
Digits == <<"0", "1", "2", "3", "4", "5", "6", "7", "8", "9">>

LowerChar(c) ==
    IF \E k \in 1..Len(UpperChars) : UpperChars[k] = c
    THEN LowerChars[CHOOSE k \in 1..Len(UpperChars) : UpperChars[k] = c]
    ELSE c

\* str.lower()
str_lower(str) == [k \in 1..Len(str) |-> LowerChar(str[k])]

RECURSIVE StrNat(_)
StrNat(n) ==
    IF n < 10 THEN <<Digits[n + 1]>>
    ELSE StrNat(n \div 10) \o <<Digits[(n % 10) + 1]>>

\* str(index) of an int, as the f-string formats it
str_int(i) == IF i < 0 THEN <<"-">> \o StrNat(-i) ELSE StrNat(i)

\* the case conversion left out
generate_id_no_lower(object_type, index) ==
    object_type \o <<"_">> \o str_int(index)

\* the sign of the index left out
generate_id_abs(object_type, index) ==
    str_lower(object_type) \o <<"_">> \o StrNat(IF index < 0 THEN -index ELSE index)

generate_id(object_type, index) ==
    str_lower(object_type) \o <<"_">> \o str_int(index)

TypeAlphabet == {"S", "s", "_"}
ExampleTypes == {<<"S", "o", "f", "a">>, <<"s", "o", "f", "a">>, <<"S", "O", "F", "A">>}
ObjectTypes == UNION {[1..k -> TypeAlphabet] : k \in 0..MaxTypeLen} \cup ExampleTypes
Indexes == (-NegIndexes)..MaxIndex
IdArgs == ObjectTypes \X Indexes

\* --------------------------------------------------- MaterialProperties
\* floats in steps of 1/Unit; a field is omitted, None or a number
Omit == [kind |-> "omitted", v |-> 0]
NoneField == [kind |-> "none", v |-> 0]
Num(n) == [kind |-> "num", v |-> n]
FieldGe == 0
FieldLe == Unit
BoundedFields == {"reflectivity", "roughness", "metallic"}
FieldInputs == {Omit, NoneField} \cup {Num(n) : n \in (-BelowRange)..(Unit + AboveRange)}
TypeInputs == {"<omitted>", "wood"}

\* the bounds taken as exclusive
FieldOkStrict(x) ==
    x.kind \in {"omitted", "none"} \/ (x.v > FieldGe /\ x.v < FieldLe)

\* Optional[float] = Field(None, ge=0.0, le=1.0)
FieldOk(x) ==
    x.kind \in {"omitted", "none"} \/ (x.v >= FieldGe /\ x.v <= FieldLe)

\* the value the constructed object holds for a field
Stored(x) == IF x.kind = "omitted" THEN NoneField ELSE x

NoMaterial == [done |-> FALSE, ok |-> FALSE, errors |-> {},
               obj |-> [f \in BoundedFields |-> NoneField]]

\* MaterialProperties(**kwargs): the validation errors name the fields
MaterialProperties(kwargs) ==
    LET errors == {f \in BoundedFields : ~FieldOk(kwargs[f])}
                  \cup (IF kwargs.type = "<omitted>" THEN {"type"} ELSE {})
    IN [done |-> TRUE, ok |-> errors = {}, errors |-> errors,
        obj |-> IF errors = {}
                THEN [f \in BoundedFields |-> Stored(kwargs[f])]
                ELSE NoMaterial.obj]

NoKwargs == [type |-> "<omitted>", reflectivity |-> Omit, roughness |-> Omit, metallic |-> Omit]

\* nothing of the schema module in use
SchemaIdle == idIn = <<>> /\ idOut = <<>> /\ matIn = NoKwargs /\ matOut = NoMaterial

\* the state before the module is loaded, for a given process environment
Loading ==
    /\ environ \in [EnvVars -> DetectSettings \cup SecretSettings]
    /\ \A k \in DetectVars : environ[k] \in DetectSettings
    /\ \A k \in SecretNames : environ[k] \in SecretSettings
    /\ pc = "load"
    /\ provider = Unset
    /\ _client = None
    /\ _cache = <<>>
    /\ calls = 0 /\ ctorCalls = 0 /\ ctorOk = 0
    /\ last = NoCall /\ prev = NoPrev
    /\ returned = {}

\* deployments with at most one detection variable set, to a text
Init ==
    /\ Loading /\ SchemaIdle
    /\ Cardinality({k \in DetectVars : environ[k] # None}) <= 1
    /\ \A k \in DetectVars : environ[k] # ""

\* every setting of the detection variables, nothing else in the environment
InitDetect ==
    /\ Loading /\ SchemaIdle
    /\ \A k \in SecretNames : environ[k] = None

\* _secret_manager = SecretManager()
Construct ==
    /\ pc = "load"
    /\ pc' = "ready"
    /\ provider' = _detect_provider
    /\ _client' = None
    /\ _cache' = <<>>
    /\ UNCHANGED <<environ, calls, ctorCalls, ctorOk, last, prev, returned>>
    /\ UNCHANGED schemaVars

\* the cache test dropped: every call is a miss
InCacheNever(name) == FALSE

\* "if secret_name in self._cache"
InCache(name) == name \in DOMAIN _cache

\* the store dropped
CacheStoreNever(name, value) == _cache

\* the store without the "if value" test
CacheStoreAlways(name, value) == (name :> value) @@ _cache

\* "if value: self._cache[secret_name] = value"
CacheStore(name, value) ==
    IF Truthy(value) THEN (name :> value) @@ _cache ELSE _cache

\* get_secret(secret_name), cache hit
GetSecretHit(name) ==
    /\ pc = "ready" /\ calls < MaxCalls
    /\ InCache(name)
    /\ last' = CallRec(name, _cache[name], NoExc, NoExc, TRUE, 0, 0, 0)
    /\ prev' = PrevRec(last)
    /\ calls' = calls + 1
    /\ returned' = returned \cup {<<name, _cache[name]>>}
    /\ UNCHANGED <<environ, pc, provider, _client, _cache, ctorCalls, ctorOk>>
    /\ UNCHANGED schemaVars

\* get_secret(secret_name), cache miss
GetSecretMiss(name, imp, ctor, req) ==
    /\ pc = "ready" /\ calls < MaxCalls
    /\ ~InCache(name)
    /\ LET r == Dispatch(name, imp, ctor, req)
       IN /\ _client' = r.client
          /\ ctorCalls' = ctorCalls + r.ctor
          /\ ctorOk' = ctorOk + r.ctorOk
          /\ last' = CallRec(name, r.ret, r.raised, r.fault, FALSE, r.ctor, r.reqs, r.envRead)
          /\ IF r.raised = NoExc
             THEN /\ _cache' = CacheStore(name, r.ret)
                  /\ returned' = returned \cup {<<name, r.ret>>}
             ELSE UNCHANGED <<_cache, returned>>
    /\ prev' = PrevRec(last)
    /\ calls' = calls + 1
    /\ UNCHANGED <<environ, pc, provider>>
    /\ UNCHANGED schemaVars

\* what can happen inside one fetch routine: the import fails; or the client
\* is missing and its construction fails; or the request is issued and
\* returns or fails
Scenarios(p) ==
    {<<FALSE, Ok("client"), Ok("")>>}
    \cup {<<TRUE, c, Ok("")>> : c \in {Raise(e) : e \in Excs}}
    \cup {<<TRUE, Ok("client"), r>> : r \in ReqOutcomes(p)}

GetSecretCloud(name) ==
    /\ provider \in {"aws", "azure", "gcp"}
    /\ \E sc \in Scenarios(provider) :
          /\ (sc[2][1] = "raise" => NeedsClient)
          /\ GetSecretMiss(name, sc[1], sc[2], sc[3])

GetSecretEnv(name) ==
    /\ provider = "env"
    /\ GetSecretMiss(name, TRUE, Ok("client"), Ok(""))

GetSecret ==
    \E name \in SecretNames :
        \/ GetSecretHit(name)
        \/ GetSecretCloud(name)
        \/ GetSecretEnv(name)

\* the process environment changes under the program
SetEnv ==
    /\ \E k \in SecretNames, v \in SecretSettings :
          /\ environ[k] # v
          /\ environ' = [environ EXCEPT ![k] = v]
    /\ UNCHANGED <<pc, provider, _client, _cache, calls, ctorCalls, ctorOk, last, prev, returned>>
    /\ UNCHANGED schemaVars

Next == Construct \/ GetSecret \/ SetEnv

Spec == Init /\ [][Next]_vars

SpecDetect == InitDetect /\ [][Construct]_vars

\* the secret manager not loaded
SecretIdle == Loading /\ \A k \in EnvVars : environ[k] = None

\* two argument pairs for generate_id
InitId ==
    /\ SecretIdle
    /\ idIn \in IdArgs \X IdArgs
    /\ idOut = <<>>
    /\ matIn = NoKwargs /\ matOut = NoMaterial

GenerateIds ==
    /\ idIn # <<>> /\ idOut = <<>>
    /\ idOut' = <<generate_id(idIn[1][1], idIn[1][2]), generate_id(idIn[2][1], idIn[2][2])>>
    /\ UNCHANGED <<secretVars, idIn, matIn, matOut>>

SpecId == InitId /\ [][GenerateIds]_vars

\* keyword arguments for MaterialProperties
InitMat ==
    /\ SecretIdle
    /\ idIn = <<>> /\ idOut = <<>>
    /\ matIn \in [type : TypeInputs, reflectivity : FieldInputs,
                  roughness : FieldInputs, metallic : FieldInputs]
    /\ matOut = NoMaterial

ConstructMaterial ==
    /\ ~matOut.done
    /\ matOut' = MaterialProperties(matIn)
    /\ UNCHANGED <<secretVars, idIn, idOut, matIn>>

SpecMat == InitMat /\ [][ConstructMaterial]_vars

\* ------------------------------------------------------------- claims
Cloud == {"aws", "azure", "gcp"}
IsSet(k) == environ[k] # None
NonEmpty(k) == environ[k] \notin {None, ""}
AwsSet == IsSet("AWS_REGION") \/ IsSet("AWS_DEFAULT_REGION")
AwsNonEmpty == NonEmpty("AWS_REGION") \/ NonEmpty("AWS_DEFAULT_REGION")
\* the variable's value, or "" when the variable is absent
EnvOrEmpty(k) == IF IsSet(k) THEN environ[k] ELSE ""
\* the step just taken was a get_secret call
Called == calls' = calls + 1

\* C1 as stated: the provider follows which detection variables are set
\* (present in the environment), AWS before Azure before GCP before ENV.
C1_SetPrecedence ==
    pc = "ready" =>
        provider = IF AwsSet THEN "aws"
                   ELSE IF IsSet("AZURE_KEY_VAULT_URL") THEN "azure"
                   ELSE IF IsSet("GCP_PROJECT_ID") THEN "gcp"
                   ELSE "env"

\* C1 amended: the provider follows which detection variables are set to a
\* non-empty value: AWS if either region variable is, otherwise Azure if the
\* vault URL is, otherwise GCP if the project id is, otherwise ENV.
C1_NonEmptyPrecedence ==
    pc = "ready" =>
        /\ AwsNonEmpty => provider = "aws"
        /\ (~AwsNonEmpty /\ NonEmpty("AZURE_KEY_VAULT_URL")) => provider = "azure"
        /\ (~AwsNonEmpty /\ ~NonEmpty("AZURE_KEY_VAULT_URL") /\ NonEmpty("GCP_PROJECT_ID"))
               => provider = "gcp"
        /\ (\A k \in DetectVars : ~NonEmpty(k)) => provider = "env"

C1_Witness ==
    /\ pc = "ready" /\ provider = "aws"
    /\ environ["AWS_REGION"] = None /\ NonEmpty("AWS_DEFAULT_REGION")
    /\ NonEmpty("AZURE_KEY_VAULT_URL") /\ NonEmpty("GCP_PROJECT_ID")

\* C2 as stated: two consecutive get_secret calls for one name issue at most
\* one backend request in total, whatever the first call's outcome.
C2_AtMostOneRequest ==
    (prev.name # NoName /\ prev.name = last.name) => prev.reqs + last.reqs <= 1

\* C2 amended: when the first of two consecutive get_secret calls for one
\* name returned a non-empty value, the second issues no backend request, so
\* the two issue at most one in total.
C2_AtMostOneRequestAfterValue ==
    (prev.name # NoName /\ prev.name = last.name /\ prev.nonEmpty)
        => (last.reqs = 0 /\ prev.reqs + last.reqs <= 1)

C2_Witness ==
    /\ provider \in Cloud /\ calls = 2
    /\ prev.name = last.name /\ prev.nonEmpty /\ prev.reqs = 1
    /\ last.hit /\ last.reqs = 0

\* C3: whenever the import, the client construction or the request of a
\* cloud fetch routine fails, get_secret raises nothing and returns the
\* environment variable's value, or "" when the variable is absent.
C3_FailureFallsBack ==
    [][(Called /\ last'.fault # NoExc)
          => (last'.raised = NoExc /\ last'.ret = EnvOrEmpty(last'.name))]_vars

\* C4: with the ENV provider, a get_secret call for an uncached name returns
\* the environment variable's value if it is present and "" if it is absent,
\* never None and never an exception.
C4_EnvLookup ==
    [][(Called /\ provider = "env" /\ ~last'.hit)
          => /\ last'.raised = NoExc
             /\ last'.ret # None
             /\ last'.ret = EnvOrEmpty(last'.name)]_vars

C4_Witness ==
    /\ provider = "env" /\ last.name \in SecretNames /\ ~last.hit
    /\ environ[last.name] = None /\ last.ret = "" /\ last.envRead = 1
    /\ prev.name \in SecretNames /\ prev.nonEmpty

\* C5: every cache entry maps a name to a non-empty value that an earlier
\* get_secret call for that name returned, and a get_secret call that yields
\* the empty string leaves the cache unchanged.
C5_CacheOnlyReturnedValues ==
    /\ [](\A n \in DOMAIN _cache :
             /\ _cache[n] \notin {None, ""}
             /\ <<n, _cache[n]>> \in returned)
    /\ [][(Called /\ last'.ret = "") => _cache' = _cache]_vars

C5_Witness ==
    /\ last.name \in SecretNames /\ last.raised = NoExc /\ last.ret = ""
    /\ last.reqs = 1
    /\ DOMAIN _cache = SecretNames \ {last.name}

\* C9 as stated: over any sequence of get_secret calls the client
\* constructor is invoked at most once, also after a failed construction.
C9_ConstructorInvokedOnce == ctorCalls <= 1

\* C9 amended: the client is constructed successfully at most once: no
\* client exists and no constructor has run before the first call; the
\* constructor runs only in a cache-missing call under a cloud provider while
\* no client exists; once a client exists it is kept and the constructor is
\* never invoked again.
C9_ConstructedOnce ==
    /\ [](/\ ctorOk <= 1
          /\ (_client = None <=> ctorOk = 0)
          /\ (calls = 0 => ctorCalls = 0))
    /\ [][/\ (_client # None => (ctorCalls' = ctorCalls /\ _client' = _client))
          /\ (ctorCalls' # ctorCalls
                 => /\ Called /\ ctorCalls' = ctorCalls + 1
                    /\ provider \in Cloud /\ ~last'.hit)]_vars

C9_Witness ==
    /\ calls = 3 /\ ctorCalls = 2 /\ ctorOk = 1
    /\ ~last.hit /\ last.ctor = 0 /\ last.reqs = 1

\* C10: once get_secret(name) has returned a non-empty value v, every later
\* get_secret(name) returns v with no backend request and no environment
\* read, whatever the backend and the environment hold by then; cache
\* entries are never removed or overwritten.
C10_ReturnedValueSticks ==
    [][/\ \A n \in DOMAIN _cache : n \in DOMAIN _cache' /\ _cache'[n] = _cache[n]
       /\ \A rv \in returned :
             (Called /\ last'.name = rv[1] /\ rv[2] \notin {None, ""})
                 => /\ last'.raised = NoExc /\ last'.ret = rv[2]
                    /\ last'.reqs = 0 /\ last'.envRead = 0]_vars

C10_Witness ==
    /\ provider \in Cloud /\ calls = 2
    /\ prev.name = last.name /\ prev.nonEmpty /\ prev.reqs = 0
    /\ last.hit /\ last.ret \in SecretValues
    /\ environ[last.name] = None

\* the characters of a str up to case
SameLetter(a, b) ==
    \/ a = b
    \/ \E k \in 1..26 : {a, b} = {UpperChars[k], LowerChars[k]}
SameIgnoringCase(x, y) ==
    Len(x) = Len(y) /\ \A k \in 1..Len(x) : SameLetter(x[k], y[k])
IsUpper(c) == \E k \in 1..26 : c = UpperChars[k]
DigitValue(c) == (CHOOSE k \in 1..10 : Digits[k] = c) - 1
IsDigits(d) == Len(d) >= 1 /\ \A k \in 1..Len(d) : \E j \in 1..10 : d[k] = Digits[j]
RECURSIVE NatValue(_)
NatValue(d) ==
    IF Len(d) = 0 THEN 0
    ELSE 10 * NatValue(SubSeq(d, 1, Len(d) - 1)) + DigitValue(d[Len(d)])
\* d is the decimal numeral of i: digits without leading zero, "-" before
\* them exactly when i is negative
IsDecimalOf(d, i) ==
    LET neg == Len(d) >= 1 /\ d[1] = "-"
        digs == IF neg THEN Tail(d) ELSE d
    IN /\ IsDigits(digs)
       /\ (Len(digs) > 1 => digs[1] # "0")
       /\ (neg <=> i < 0)
       /\ NatValue(digs) = (IF i < 0 THEN -i ELSE i)

\* the text of generate_id is: the type with every upper-case letter
\* replaced by its lower-case letter, "_", the decimal numeral of the index
IsIdOf(r, t, i) ==
    /\ Len(r) >= Len(t) + 2
    /\ \A k \in 1..Len(t) : ~IsUpper(r[k]) /\ SameLetter(r[k], t[k])
    /\ r[Len(t) + 1] = "_"
    /\ IsDecimalOf(SubSeq(r, Len(t) + 2, Len(r)), i)

\* C6 as stated: two distinct (object_type, index) pairs never get the same id.
C6_Injective ==
    (idOut # <<>> /\ idIn[1] # idIn[2]) => idOut[1] # idOut[2]

\* C6 amended: two (object_type, index) pairs get the same id exactly when
\* their indexes are equal and their types are equal up to letter case; all
\* other distinct pairs get distinct ids.
C6_InjectiveUpToCase ==
    idOut # <<>> =>
        (idOut[1] = idOut[2]
            <=> (idIn[1][2] = idIn[2][2] /\ SameIgnoringCase(idIn[1][1], idIn[2][1])))

C6_Witness ==
    /\ idOut # <<>>
    /\ idIn[1] = <<<<"s", "_">>, 1>> /\ idIn[2] = <<<<"s">>, -1>>
    /\ idOut[1] # idOut[2]

\* C7: generate_id returns the lowercased type, "_" and the decimal index
\* (("Sofa", 1) gives "sofa_1"); equal arguments give equal results, and so
\* do arguments that differ only in letter case.
C7_Format ==
    idOut # <<>> =>
        /\ \A k \in 1..2 : IsIdOf(idOut[k], idIn[k][1], idIn[k][2])
        /\ \A k \in 1..2 :
              idIn[k] = <<<<"S", "o", "f", "a">>, 1>>
                  => idOut[k] = <<"s", "o", "f", "a", "_", "1">>
        /\ idIn[1] = idIn[2] => idOut[1] = idOut[2]
        /\ (idIn[1][2] = idIn[2][2] /\ SameIgnoringCase(idIn[1][1], idIn[2][1]))
              => idOut[1] = idOut[2]

C7_Witness ==
    /\ idIn = << <<<<"S", "o", "f", "a">>, 1>>, <<<<"S", "O", "F", "A">>, 1>> >>
    /\ idOut = << <<"s", "o", "f", "a", "_", "1">>, <<"s", "o", "f", "a", "_", "1">> >>

InRange(x) == x.kind = "num" /\ x.v >= 0 /\ x.v <= Unit
OutOfRange(x) == x.kind = "num" /\ (x.v < 0 \/ x.v > Unit)

\* C8: with the other arguments valid, construction succeeds exactly when
\* each of reflectivity, roughness and metallic is omitted or within
\* [0.0, 1.0], bounds included; a value below 0.0 or above 1.0 in any of them
\* makes it fail, and a constructed object holds no out-of-range value.
C8_ClosedUnitInterval ==
    matOut.done =>
        /\ (\E f \in BoundedFields : OutOfRange(matIn[f])) => ~matOut.ok
        /\ (matIn.type # "<omitted>"
               /\ \A f \in BoundedFields :
                     matIn[f].kind \in {"omitted", "none"} \/ InRange(matIn[f]))
              => matOut.ok
        /\ matOut.ok =>
              \A f \in BoundedFields :
                  /\ ~OutOfRange(matOut.obj[f])
                  /\ matIn[f].kind = "num" => matOut.obj[f] = matIn[f]

C8_Witness ==
    /\ matOut.done /\ matOut.ok
    /\ matIn.reflectivity = Num(Unit) /\ matIn.roughness = Num(0)
    /\ matIn.metallic = Omit
    /\ matOut.obj.reflectivity = Num(Unit) /\ matOut.obj.roughness = Num(0)
====
